---- MODULE Spec2Model ----
(***************************************************************************)
(* Verification model of the observability demo repository.                *)
(*                                                                         *)
(*  - the traffic generator  generate-traffic.sh  (SchedulerSpec)          *)
(*  - the Go service         services/go-service/main.go  (GoSpec)         *)
(*  - the browser frontend   services/nextjs-frontend     (FrontendSpec)   *)
(*                                                                         *)
(* Time is counted in clock units of 1/TicksPerSecond second, so that the  *)
(* script's think times (sleep 0.1, sleep 0.2) are whole numbers.          *)
(***************************************************************************)
EXTENDS Integers, Sequences, FiniteSets, TLC

VARIABLES
    \* ---- generate-traffic.sh ----
    DURATION,             \* $1
    REQUESTS_PER_SECOND,  \* $2
    now,                  \* the wall clock, in clock units
    start_time,           \* $(date +%s) at line 130, in seconds
    elapsed,              \* line 137, in seconds
    request_count,        \* line 131
    journey_type,         \* argument of user_journey (0 before the first journey)
    ip,                   \* index of the next command of the running journey
    pc,                   \* "loop" | "journey" | "curl" | "sleeping" | "done"
    nap,                  \* length of the sleep in progress, in clock units
    back,                 \* where the sleep in progress returns to
    target,               \* service and endpoint of the latest make_request
    hung,                 \* the call in flight is to a service that never answers
    curl_result,          \* what curl wrote for %{http_code}, and whether it exited 0
    response_code,        \* line 40
    mark,                 \* what make_request printed for curl_result: "ok" (the
                          \* green tick), "fail" (the red cross), "none"
    issued,               \* number of curl invocations started so far
    out,                  \* the latest "Requests:"/"Total requests sent:" line
    sig,                  \* SIGINT: "none" | "pending" | "handled"
    in_flight,            \* number of curl processes of the script that are running
    sent,                 \* the calls the running journey has issued, in order
    returned_at,          \* the clock when the latest call returned
    \* ---- services/go-service/main.go ----
    reqs,                 \* the requests received so far, in order of arrival
    spans,                \* the spans started by the tracer provider
    logs,                 \* the lines written by logJSON
    metrics,              \* the calls of requestCounter.Add / requestDuration.Record
    nextId,               \* source of fresh trace and span ids
    \* ---- services/nextjs-frontend ----
    lib,                  \* the module behind '../lib/telemetry'
    mounted,              \* page.tsx line 6
    isInitialized,        \* the telemetry module's flag; the fetch patch is active
    loading,              \* page.tsx line 10
    pythonData,           \* page.tsx line 7
    goData,               \* page.tsx line 8
    rustData,             \* page.tsx line 9
    fetches               \* the calls of window.fetch so far, in order

schedVars == <<DURATION, REQUESTS_PER_SECOND, now, start_time, elapsed,
               request_count, journey_type, ip, pc, nap, back, target,
               hung, curl_result, response_code, mark, issued, out, sig,
               in_flight, sent, returned_at>>

goVars == <<reqs, spans, logs, metrics, nextId>>

feVars == <<lib, mounted, isInitialized, loading, pythonData, goData, rustData,
            fetches>>

vars == <<schedVars, goVars, feVars>>

----------------------------------------------------------------------------
(* Bounds of the model *)

MaxDuration == 2      \* DURATION ranges over 0..MaxDuration seconds
MaxRate == 2          \* REQUESTS_PER_SECOND ranges over 1..MaxRate
MaxCallTime == 2      \* a call that returns takes 0..MaxCallTime clock units
MaxRequests == 2      \* the Go service receives at most MaxRequests requests
BusyDuration == 1     \* DURATION of the busy run, in seconds
BusyRate == 10        \* REQUESTS_PER_SECOND of the busy run
MaxFetches == 3       \* the page calls window.fetch at most MaxFetches times

(* Program constants *)

TicksPerSecond == 10  \* date +%s counts seconds; sleep 0.1 is one clock unit
ThinkDashboard == 2   \* sleep 0.2
ThinkStep == 1        \* sleep 0.1
DrawRange == 100      \* RANDOM % 100
ProgressEvery == 20   \* request_count % 20

----------------------------------------------------------------------------
(* services/go-service/main.go *)

Methods == {"GET", "OPTIONS"}
Paths == {"/", "/data", "/error", "/other"}
RemoteTraceIds == {901}
RemoteSpanIds == {801}

\* The inbound traceparent header: absent, malformed, or naming a trace and
\* a parent span.
TraceParents ==
    { [kind |-> k, trace_id |-> 0, span_id |-> 0] : k \in {"absent", "malformed"} }
      \cup { [kind |-> "valid", trace_id |-> t, span_id |-> p] :
               t \in RemoteTraceIds, p \in RemoteSpanIds }

NoCtx == [trace_id |-> 0, span_id |-> 0]

\* trace.SpanContext.IsValid
IsValid(sc) == sc.trace_id # 0 /\ sc.span_id # 0

\* The W3C trace-context propagator, had it been registered.
TraceContextExtract(hdr) ==
    IF hdr.kind = "valid"
    THEN [trace_id |-> hdr.trace_id, span_id |-> hdr.span_id]
    ELSE NoCtx

\* main and initTracer register a tracer provider and a meter provider and
\* never call otel.SetTextMapPropagator: the global propagator that
\* otelhttp.NewHandler picks up is the default one, which extracts nothing.
GlobalPropagator == "noop"

\* A propagator that takes whatever header is present for a parent.
ExtractUnchecked(hdr) ==
    IF hdr.kind = "absent" THEN NoCtx
    ELSE [trace_id |-> 901, span_id |-> 801]

\* otelhttp: ctx := propagator.Extract(r.Context(), headers)
Extract(hdr) ==
    IF GlobalPropagator = "tracecontext" THEN TraceContextExtract(hdr) ELSE NoCtx

\* tracer.Start(ctx, name): a child of the span in ctx, or a new trace root.
\* id and id + 1 are fresh.
StartSpan(ctx, name, i, id) ==
    [req |-> i, name |-> name,
     trace_id |-> IF IsValid(ctx) THEN ctx.trace_id ELSE id,
     span_id |-> id + 1,
     parent |-> IF IsValid(ctx) THEN ctx.span_id ELSE 0,
     error |-> FALSE, ended |-> FALSE]

SpanContext(s) == [trace_id |-> s.trace_id, span_id |-> s.span_id]

\* The spans, logs and samples of request i.
SpansOf(i) == {s \in spans : s.req = i}
LogsOf(i) == {l \in logs : l.req = i}
SamplesOf(i, name) == {m \in metrics : m.req = i /\ m.name = name}

\* logJSON(ctx, level, message, fields): the ids are those of the span in ctx,
\* and are left out when that span context is not valid.
logJSON(ctx, i, level, message, fields) ==
    [req |-> i, n |-> Cardinality(LogsOf(i)),
     level |-> level, message |-> message, service |-> "go-service",
     has_ids |-> IsValid(ctx),
     trace_id |-> IF IsValid(ctx) THEN ctx.trace_id ELSE 0,
     span_id |-> IF IsValid(ctx) THEN ctx.span_id ELSE 0,
     fields |-> fields]

\* A counter increment that leaves the status label out.
CounterAddNoStatus(i, endpoint, status) ==
    [req |-> i, name |-> "http_requests_total", value |-> 1,
     method |-> "GET", endpoint |-> endpoint, status |-> ""]

\* requestCounter.Add(ctx, 1, labels)
CounterAdd(i, endpoint, status) ==
    [req |-> i, name |-> "http_requests_total", value |-> 1,
     method |-> "GET", endpoint |-> endpoint, status |-> status]

\* requestDuration.Record(ctx, duration, labels)
HistogramRecord(i, endpoint) ==
    [req |-> i, name |-> "http_request_duration_seconds", value |-> 1,
     method |-> "GET", endpoint |-> endpoint, status |-> ""]

\* http.ServeMux with the patterns "/", "/data" and "/error": "/" takes every
\* path the other two do not.
Route(path) ==
    CASE path = "/data" -> "dataHandler"
      [] path = "/error" -> "errorHandler"
      [] OTHER -> "rootHandler"

\* The span each handler starts for its unit of work.
HandlerSpanName(h) ==
    CASE h = "dataHandler" -> "get_data_handler"
      [] h = "errorHandler" -> "error_handler"
      [] OTHER -> "root_handler"

NoResponse == [status |-> 0, body |-> "none"]

\* The service after main has set up the providers and the routes; the
\* traffic generator is not part of this specification and stays idle.
InitGo ==
    /\ reqs = << >>
    /\ spans = {}
    /\ logs = {}
    /\ metrics = {}
    /\ nextId = 1
    /\ DURATION = 0
    /\ REQUESTS_PER_SECOND = 1
    /\ now = 0
    /\ start_time = 0
    /\ elapsed = 0
    /\ request_count = 0
    /\ journey_type = 0
    /\ ip = 0
    /\ pc = "loop"
    /\ nap = 0
    /\ back = "loop"
    /\ target = [op |-> "none"]
    /\ hung = FALSE
    /\ curl_result = [code |-> "", ok |-> TRUE]
    /\ response_code = ""
    /\ mark = "none"
    /\ issued = 0
    /\ out = [kind |-> "none", total |-> 0, elapsed |-> 0, sent |-> 0]
    /\ sig = "none"
    /\ in_flight = 0
    /\ sent = << >>
    /\ returned_at = 0
    /\ lib = "part_002"
    /\ mounted = FALSE
    /\ isInitialized = FALSE
    /\ loading = FALSE
    /\ pythonData = "null"
    /\ goData = "null"
    /\ rustData = "null"
    /\ fetches = << >>

End(s) == [s EXCEPT !.ended = TRUE]

\* A request arrives: enableCORS, then otelhttp.NewHandler(mux, "go-service"),
\* which extracts the propagated context and starts the server span; the
\* request's context carries that span into the handler.
Receive ==
    /\ Len(reqs) < MaxRequests
    /\ \E m \in Methods, p \in Paths, hdr \in TraceParents :
         LET i == Len(reqs) + 1 IN
         IF m = "OPTIONS"
         THEN /\ reqs' = Append(reqs, [method |-> m, path |-> p, header |-> hdr,
                                       stage |-> "done", handler |-> "none",
                                       ctx |-> NoCtx,
                                       response |-> [status |-> 200, body |-> "empty"]])
              /\ UNCHANGED <<spans, nextId>>
         ELSE LET server == StartSpan(Extract(hdr), "go-service", i, nextId) IN
              /\ spans' = spans \cup {server}
              /\ nextId' = nextId + 2
              /\ reqs' = Append(reqs, [method |-> m, path |-> p, header |-> hdr,
                                       stage |-> "routed", handler |-> Route(p),
                                       ctx |-> SpanContext(server),
                                       response |-> NoResponse])
    /\ UNCHANGED <<logs, metrics>>
    /\ UNCHANGED <<schedVars, feVars>>

rootHandler(i) ==
    /\ reqs[i].stage = "routed"
    /\ reqs[i].handler = "rootHandler"
    /\ LET ctx == reqs[i].ctx
           span == StartSpan(ctx, "root_handler", i, nextId)
       IN
       /\ nextId' = nextId + 2
       /\ logs' = logs \cup {logJSON(ctx, i, "INFO", "Processing root request", "")}
       /\ reqs' = [reqs EXCEPT ![i].stage = "returned",
                               ![i].response = [status |-> 200, body |-> "hello"]]
       /\ metrics' = metrics \cup {CounterAdd(i, "/", ""), HistogramRecord(i, "/")}
       /\ spans' = spans \cup {End(span)}
    /\ UNCHANGED <<schedVars, feVars>>

\* dataHandler up to the simulated database query (time.Sleep).
dataHandlerQuery(i) ==
    /\ reqs[i].stage = "routed"
    /\ reqs[i].handler = "dataHandler"
    /\ LET ctx == reqs[i].ctx
           span == StartSpan(ctx, "get_data_handler", i, nextId)
           dbSpan == StartSpan(ctx, "database_query", i, nextId + 2)
       IN
       /\ nextId' = nextId + 4
       /\ logs' = logs \cup {logJSON(ctx, i, "INFO", "Fetching data", "")}
       /\ spans' = spans \cup {span, dbSpan}
       /\ reqs' = [reqs EXCEPT ![i].stage = "querying"]
    /\ UNCHANGED metrics
    /\ UNCHANGED <<schedVars, feVars>>

\* dataHandler from the end of the query to its return.
dataHandlerReturn(i) ==
    /\ reqs[i].stage = "querying"
    /\ LET ctx == reqs[i].ctx IN
       /\ logs' = logs \cup {logJSON(ctx, i, "INFO", "Retrieved items", "item_count=10")}
       /\ reqs' = [reqs EXCEPT ![i].stage = "returned",
                               ![i].response = [status |-> 200, body |-> "data,count=10"]]
       /\ metrics' = metrics \cup {CounterAdd(i, "/data", ""), HistogramRecord(i, "/data")}
       /\ spans' = { IF s.req = i /\ s.name \in {"get_data_handler", "database_query"}
                     THEN End(s) ELSE s : s \in spans }
    /\ UNCHANGED nextId
    /\ UNCHANGED <<schedVars, feVars>>

errorHandler(i) ==
    /\ reqs[i].stage = "routed"
    /\ reqs[i].handler = "errorHandler"
    /\ LET ctx == reqs[i].ctx
           span == [StartSpan(ctx, "error_handler", i, nextId) EXCEPT !.error = TRUE]
       IN
       /\ nextId' = nextId + 2
       /\ logs' = logs \cup {logJSON(ctx, i, "ERROR", "Simulated error occurred",
                                     "error_type=SimulatedError")}
       /\ metrics' = metrics \cup {CounterAdd(i, "/error", "error")}
       /\ reqs' = [reqs EXCEPT ![i].stage = "returned",
                               ![i].response = [status |-> 500, body |-> "error"]]
       /\ spans' = spans \cup {End(span)}
    /\ UNCHANGED <<schedVars, feVars>>

\* The handler has returned: otelhttp ends the server span.
ServeDone(i) ==
    /\ reqs[i].stage = "returned"
    /\ reqs' = [reqs EXCEPT ![i].stage = "done"]
    /\ spans' = { IF s.req = i /\ s.name = "go-service" THEN End(s) ELSE s : s \in spans }
    /\ UNCHANGED <<logs, metrics, nextId>>
    /\ UNCHANGED <<schedVars, feVars>>

NextGo ==
    \/ Receive
    \/ \E i \in 1..Len(reqs) : rootHandler(i)
    \/ \E i \in 1..Len(reqs) : dataHandlerQuery(i)
    \/ \E i \in 1..Len(reqs) : dataHandlerReturn(i)
    \/ \E i \in 1..Len(reqs) : errorHandler(i)
    \/ \E i \in 1..Len(reqs) : ServeDone(i)

GoSpec == InitGo /\ [][NextGo]_vars

----------------------------------------------------------------------------
(* Properties of the Go service *)

\* The requests whose handler has returned.
Returned == {i \in 1..Len(reqs) : reqs[i].handler # "none"
                                   /\ reqs[i].stage \in {"returned", "done"}}

\* The span a handler started for its own unit of work.
HandlerSpans(i) == {s \in SpansOf(i) : s.name = HandlerSpanName(reqs[i].handler)}

\* C1: when a handler has returned, its request has exactly one span for
\* the handler's unit of work, at least one log record, exactly one
\* increment of http_requests_total and exactly one observation of
\* http_request_duration_seconds, on each of the three routes.
OneSpanLogCounterHistogramPerRequest ==
    \A i \in Returned :
        /\ Cardinality(HandlerSpans(i)) = 1
        /\ LogsOf(i) # {}
        /\ Cardinality(SamplesOf(i, "http_requests_total")) = 1
        /\ Cardinality(SamplesOf(i, "http_request_duration_seconds")) = 1

\* C2: a request that carries a well-formed traceparent (trace T, parent
\* span P) continues that trace: each of its spans has trace id T, and the
\* handler's span has P as parent, directly or through the service's entry
\* span.
ContinuesPropagatedTrace ==
    \A i \in 1..Len(reqs) :
        reqs[i].header.kind = "valid" =>
            /\ \A s \in SpansOf(i) : s.trace_id = reqs[i].header.trace_id
            /\ \A s \in HandlerSpans(i) :
                 \/ s.parent = reqs[i].header.span_id
                 \/ \E e \in SpansOf(i) : /\ e.name = "go-service"
                                          /\ s.parent = e.span_id
                                          /\ e.parent = reqs[i].header.span_id

\* C3: a log record with ids carries the trace id and the span id of the
\* span its handler started for the request, and a record has no ids only
\* when the request's context holds no valid span context.
LogsCarryHandlerSpanIds ==
    \A l \in logs :
        /\ l.has_ids =>
             \E s \in HandlerSpans(l.req) : /\ l.trace_id = s.trace_id
                                            /\ l.span_id = s.span_id
        /\ ~l.has_ids => ~IsValid(reqs[l.req].ctx)

\* Request i is in a handler that can take its next step.
HandlerCanRun(i) ==
    /\ reqs[i].stage = "routed" =>
         ENABLED (rootHandler(i) \/ dataHandlerQuery(i) \/ errorHandler(i))
    /\ reqs[i].stage = "querying" => ENABLED dataHandlerReturn(i)

\* C11: a request without a traceparent header, or with a malformed one,
\* that reaches a handler never blocks or fails it; its spans form a new
\* trace (an id no other request and no inbound header has, the entry span
\* without parent), and its response is the one a request to the same path
\* with a valid header gets.
NoHeaderNewRootSameResponse ==
    \A i \in 1..Len(reqs) :
        (reqs[i].handler # "none" /\ reqs[i].header.kind \in {"absent", "malformed"}) =>
            /\ HandlerCanRun(i)
            /\ SpansOf(i) # {}
            /\ \A s \in SpansOf(i) :
                 /\ s.trace_id \notin RemoteTraceIds
                 /\ s.parent \notin RemoteSpanIds
                 /\ s.name = "go-service" => s.parent = 0
                 /\ \A t \in spans : t.req # i => t.trace_id # s.trace_id
            /\ \A j \in 1..Len(reqs) :
                 (/\ reqs[j].header.kind = "valid"
                  /\ reqs[j].path = reqs[i].path
                  /\ reqs[j].method = reqs[i].method
                  /\ reqs[i].stage \in {"returned", "done"}
                  /\ reqs[j].stage \in {"returned", "done"})
                     => reqs[i].response = reqs[j].response

\* A request with a malformed header and one with a valid header, both to
\* /data, have been answered.
NoHeaderWitness ==
    /\ Len(reqs) = 2
    /\ reqs[1].header.kind = "malformed" /\ reqs[2].header.kind = "valid"
    /\ reqs[1].path = "/data" /\ reqs[2].path = "/data"
    /\ reqs[1].method = "GET" /\ reqs[2].method = "GET"
    /\ reqs[1].stage = "done" /\ reqs[2].stage = "done"
    /\ reqs[1].response.status = 200

\* What C12 says of an answered request i to /error.
ErrorTriplet(i) ==
    /\ reqs[i].response = [status |-> 500, body |-> "error"]
    /\ HandlerSpans(i) # {}
    /\ \A s \in HandlerSpans(i) : s.error
    /\ LogsOf(i) # {}
    /\ \A l \in LogsOf(i) : l.level = "ERROR"
    /\ SamplesOf(i, "http_requests_total") # {}
    /\ \A m \in SamplesOf(i, "http_requests_total") :
         m.method = "GET" /\ m.endpoint = "/error" /\ m.status = "error"

----------------------------------------------------------------------------
(* generate-traffic.sh *)

PYTHON_SERVICE == "http://localhost:8001"
GO_SERVICE == "http://localhost:8002"
RUST_SERVICE == "http://localhost:8003"
NEXTJS_FRONTEND == "http://localhost:3001"

\* SLEEP_TIME=$(awk "BEGIN {print 1/$REQUESTS_PER_SECOND}"), in clock units
\* (rounded down to the clock's resolution).
SLEEP_TIME(rps) == TicksPerSecond \div rps

\* date +%s
DateSeconds(t) == t \div TicksPerSecond

Call(name, endpoint) == [op |-> "call", service |-> name, url |-> endpoint]
Sleep(t) == [op |-> "sleep", ticks |-> t]
RandomCall == [op |-> "random_call"]

\* user_journey: the commands of each journey, in the order of the case arm.
user_journey(j) ==
    CASE j = 1 -> << Call("Frontend", NEXTJS_FRONTEND),
                     Sleep(ThinkDashboard),
                     Call("Python", PYTHON_SERVICE \o "/"),
                     Call("Go", GO_SERVICE \o "/"),
                     Call("Rust", RUST_SERVICE \o "/") >>
      [] j = 2 -> << Call("Python", PYTHON_SERVICE \o "/data"),
                     Sleep(ThinkStep),
                     Call("Go", GO_SERVICE \o "/data"),
                     Sleep(ThinkStep),
                     Call("Rust", RUST_SERVICE \o "/data") >>
      [] j = 3 -> << Call("Python", PYTHON_SERVICE \o "/error") >>
      [] j = 4 -> << Call("Python", PYTHON_SERVICE \o "/"),
                     Call("Python", PYTHON_SERVICE \o "/data"),
                     Call("Python", PYTHON_SERVICE \o "/data") >>
      [] j = 5 -> << Call("Go", GO_SERVICE \o "/"),
                     Call("Go", GO_SERVICE \o "/data"),
                     Call("Go", GO_SERVICE \o "/data") >>
      [] j = 6 -> << Call("Rust", RUST_SERVICE \o "/"),
                     Call("Rust", RUST_SERVICE \o "/data"),
                     Call("Rust", RUST_SERVICE \o "/data") >>
      [] j = 7 -> << RandomCall >>
      [] j = 8 -> << Call("Go", GO_SERVICE \o "/error"),
                     Sleep(ThinkStep),
                     Call("Rust", RUST_SERVICE \o "/error") >>

\* Journey 7: services[RANDOM % 3], endpoints[RANDOM % 2], and the name
\* derived from the port in the chosen service.
RandomTargets ==
    { Call(s[1], s[2] \o e) :
        s \in { <<"Python", PYTHON_SERVICE>>, <<"Go", GO_SERVICE>>,
                <<"Rust", RUST_SERVICE>> },
        e \in { "/", "/data" } }

\* A journey that does not pause between its calls.
ThinkTimeNone(c) == 0

\* sleep 0.2 / sleep 0.1 inside a journey: the pause, in clock units.
ThinkTime(c) == c.ticks

\* The if/elif chain of the main loop: the journey a draw selects.
SelectJourneyShifted(r) ==
    IF r < 25 THEN 1
    ELSE IF r < 40 THEN 2
    ELSE IF r < 50 THEN 3
    ELSE IF r < 60 THEN 4
    ELSE IF r < 70 THEN 5
    ELSE IF r < 80 THEN 6
    ELSE IF r < 85 THEN 8
    ELSE 7

SelectJourney(r) ==
    IF r < 25 THEN 1
    ELSE IF r < 45 THEN 2
    ELSE IF r < 50 THEN 3
    ELSE IF r < 60 THEN 4
    ELSE IF r < 70 THEN 5
    ELSE IF r < 80 THEN 6
    ELSE IF r < 85 THEN 8
    ELSE 7

\* random=$((RANDOM % 100)): the journeys the draws of 0..99 can select.
SelectableJourneys == {SelectJourney(r) : r \in 0..(DrawRange - 1)}

\* The amount added to request_count after each journey.
CountIncrement(j) ==
    CASE j = 1 -> 4
      [] j = 2 -> 3
      [] j = 3 -> 1
      [] j = 4 -> 3
      [] j = 5 -> 3
      [] j = 6 -> 3
      [] j = 8 -> 2
      [] j = 7 -> 1

\* [ $elapsed -ge $DURATION ]
ExpiredStrict(e, d) == e > d

Expired(e, d) == e >= d

\* What curl can do with one request that it finishes: the status it writes
\* for %{http_code} ("000" when no response line was received), and whether
\* it exits 0.  A transfer that breaks after the status line writes the
\* status and exits non-zero.
CurlResults ==
    { [code |-> c, ok |-> TRUE] : c \in {"200", "500", "404"} }
      \cup { [code |-> c, ok |-> FALSE] : c \in {"000", "200"} }

\* response_code=$(curl -s -o /dev/null -w "%{http_code}" "$endpoint" || echo "000")
ResponseCode(res) == IF res.ok THEN res.code ELSE res.code \o "000"

\* if [ "$response_code" = "200" ] || [ "$response_code" = "500" ]
Classify(code) == IF code = "200" \/ code = "500" THEN "ok" ELSE "fail"

NoTarget == [op |-> "none"]
NoResult == [code |-> "", ok |-> TRUE]
NoOut == [kind |-> "none", total |-> 0, elapsed |-> 0, sent |-> 0]

\* The lines that print the running total; "sent" notes how many calls had
\* been issued when the line was printed.
Report(k) == [kind |-> k, total |-> request_count, elapsed |-> elapsed,
              sent |-> issued]

SchedulerState == IF pc = "done" THEN "Stopped" ELSE "Running"

\* The script at line 135, about to enter the loop; it starts on a whole
\* second of the clock.  The Go service is not part of this specification.
InitScheduler ==
    /\ DURATION \in 0..MaxDuration
    /\ REQUESTS_PER_SECOND \in 1..MaxRate
    /\ now = 0
    /\ start_time = DateSeconds(now)
    /\ elapsed = 0
    /\ request_count = 0
    /\ journey_type = 0
    /\ ip = 0
    /\ pc = "loop"
    /\ nap = 0
    /\ back = "loop"
    /\ target = NoTarget
    /\ hung = FALSE
    /\ curl_result = NoResult
    /\ response_code = ""
    /\ mark = "none"
    /\ issued = 0
    /\ out = NoOut
    /\ sig = "none"
    /\ in_flight = 0
    /\ sent = << >>
    /\ returned_at = 0
    /\ reqs = << >>
    /\ spans = {}
    /\ logs = {}
    /\ metrics = {}
    /\ nextId = 1
    /\ lib = "part_002"
    /\ mounted = FALSE
    /\ isInitialized = FALSE
    /\ loading = FALSE
    /\ pythonData = "null"
    /\ goData = "null"
    /\ rustData = "null"
    /\ fetches = << >>

\* The INT trap: print the total and exit 0.
Trap ==
    /\ out' = Report("interrupted")
    /\ pc' = "done"
    /\ sig' = "handled"

\* Top of the while loop: the duration check, then the draw.
LoopTop ==
    /\ pc = "loop"
    /\ LET e == DateSeconds(now) - start_time IN
       /\ elapsed' = e
       /\ IF Expired(e, DURATION)
          THEN /\ out' = [kind |-> "completed", total |-> request_count,
                          elapsed |-> e, sent |-> issued]
               /\ pc' = "done"
               /\ UNCHANGED <<journey_type, ip>>
          ELSE /\ journey_type' \in SelectableJourneys
               /\ ip' = 1
               /\ pc' = "journey"
               /\ out' = out
    /\ UNCHANGED <<in_flight, sent, returned_at>>
    /\ UNCHANGED <<goVars, feVars>>
    /\ UNCHANGED <<DURATION, REQUESTS_PER_SECOND, now, start_time,
                   request_count, nap, back, target, hung, curl_result,
                   response_code, mark, issued, sig>>

\* make_request, up to the start of curl.
MakeRequestIssue ==
    /\ pc = "journey"
    /\ ip <= Len(user_journey(journey_type))
    /\ LET c == user_journey(journey_type)[ip] IN
       /\ c.op \in {"call", "random_call"}
       /\ IF c.op = "call" THEN target' = c ELSE target' \in RandomTargets
    /\ hung' \in BOOLEAN
    /\ issued' = issued + 1
    /\ pc' = "curl"
    /\ in_flight' = in_flight + 1
    /\ sent' = Append(sent, target')
    /\ UNCHANGED returned_at
    /\ UNCHANGED <<goVars, feVars>>
    /\ UNCHANGED <<DURATION, REQUESTS_PER_SECOND, now, start_time, elapsed,
                   request_count, journey_type, ip, nap, back,
                   curl_result, response_code, mark, out, sig>>

\* curl exits; make_request prints the tick or the cross.  A SIGINT that
\* arrived while the shell was waiting for curl is handled now, before the
\* next command.
MakeRequestReturn ==
    /\ pc = "curl"
    /\ ~hung
    /\ \E d \in 0..MaxCallTime : now' = now + d
    /\ \E res \in CurlResults :
         /\ curl_result' = res
         /\ response_code' = ResponseCode(res)
    /\ IF sig = "pending"
       THEN /\ Trap
            /\ mark' = "none"
            /\ ip' = ip
       ELSE /\ mark' = Classify(response_code')
            /\ ip' = ip + 1
            /\ pc' = "journey"
            /\ UNCHANGED <<out, sig>>
    /\ hung' = FALSE
    /\ in_flight' = in_flight - 1
    /\ returned_at' = now'
    /\ UNCHANGED sent
    /\ UNCHANGED <<goVars, feVars>>
    /\ UNCHANGED <<DURATION, REQUESTS_PER_SECOND, start_time, elapsed,
                   request_count, journey_type, nap, back, target,
                   issued>>

\* A think time inside a journey starts.
ThinkStart ==
    /\ pc = "journey"
    /\ ip <= Len(user_journey(journey_type))
    /\ LET c == user_journey(journey_type)[ip] IN
       /\ c.op = "sleep"
       /\ nap' = ThinkTime(c)
    /\ back' = "journey"
    /\ ip' = ip + 1
    /\ pc' = "sleeping"
    /\ UNCHANGED <<in_flight, sent, returned_at>>
    /\ UNCHANGED <<goVars, feVars>>
    /\ UNCHANGED <<DURATION, REQUESTS_PER_SECOND, now, start_time, elapsed,
                   request_count, journey_type, target, hung,
                   curl_result, response_code, mark, issued, out, sig>>

\* user_journey has returned: the count, the progress line, sleep $SLEEP_TIME.
FinishJourney ==
    /\ pc = "journey"
    /\ ip > Len(user_journey(journey_type))
    /\ request_count' = request_count + CountIncrement(journey_type)
    /\ IF request_count' % ProgressEvery = 0
       THEN out' = [kind |-> "progress", total |-> request_count',
                    elapsed |-> elapsed, sent |-> issued]
       ELSE out' = out
    /\ nap' = SLEEP_TIME(REQUESTS_PER_SECOND)
    /\ back' = "loop"
    /\ pc' = "sleeping"
    /\ sent' = << >>
    /\ UNCHANGED <<in_flight, returned_at>>
    /\ UNCHANGED <<goVars, feVars>>
    /\ UNCHANGED <<DURATION, REQUESTS_PER_SECOND, now, start_time, elapsed,
                   journey_type, ip, target, hung, curl_result,
                   response_code, mark, issued, sig>>

\* sleep exits.  A pending SIGINT is handled now.
SleepReturn ==
    /\ pc = "sleeping"
    /\ now' = now + nap
    /\ nap' = 0
    /\ IF sig = "pending"
       THEN Trap
       ELSE /\ pc' = back
            /\ UNCHANGED <<out, sig>>
    /\ UNCHANGED <<in_flight, sent, returned_at>>
    /\ UNCHANGED <<goVars, feVars>>
    /\ UNCHANGED <<DURATION, REQUESTS_PER_SECOND, start_time, elapsed,
                   request_count, journey_type, ip, back, target, hung,
                   curl_result, response_code, mark, issued>>

\* SIGINT reaches the shell while it runs no foreground command, or reaches
\* the whole foreground process group (Ctrl+C): the command in progress is
\* killed with it and the trap runs at once.
SigintNow ==
    /\ sig = "none"
    /\ pc # "done"
    /\ Trap
    /\ hung' = FALSE
    /\ nap' = 0
    /\ in_flight' = 0
    /\ UNCHANGED <<sent, returned_at>>
    /\ UNCHANGED <<goVars, feVars>>
    /\ UNCHANGED <<DURATION, REQUESTS_PER_SECOND, now, start_time, elapsed,
                   request_count, journey_type, ip, back, target,
                   curl_result, response_code, mark, issued>>

\* SIGINT reaches the shell alone (kill -INT <pid>) while it waits for curl
\* or sleep: bash runs the trap only after that command has exited.
SigintDeferred ==
    /\ sig = "none"
    /\ pc \in {"curl", "sleeping"}
    /\ sig' = "pending"
    /\ UNCHANGED <<in_flight, sent, returned_at>>
    /\ UNCHANGED <<goVars, feVars>>
    /\ UNCHANGED <<DURATION, REQUESTS_PER_SECOND, now, start_time, elapsed,
                   request_count, journey_type, ip, pc, nap, back,
                   target, hung, curl_result, response_code, mark, issued, out>>

SchedulerStep ==
    \/ LoopTop
    \/ MakeRequestIssue
    \/ MakeRequestReturn
    \/ ThinkStart
    \/ FinishJourney
    \/ SleepReturn

NextScheduler ==
    \/ SchedulerStep
    \/ SigintNow
    \/ SigintDeferred

SchedulerSpec == InitScheduler /\ [][NextScheduler]_vars

\* The shell always runs its next command, a sleep always ends, and a service
\* that answers does answer; nobody is bound to send a signal.
FairSchedulerSpec == SchedulerSpec /\ WF_vars(SchedulerStep)



----------------------------------------------------------------------------
(* Properties of generate-traffic.sh *)

\* The number of draws of 0..DrawRange-1 that select each journey.
JourneyCounts ==
    [j \in 1..8 |-> Cardinality({r \in 0..(DrawRange - 1) : SelectJourney(r) = j})]

Sum8(f) == f[1] + f[2] + f[3] + f[4] + f[5] + f[6] + f[7] + f[8]

EveryDrawSelects == \A r \in 0..99 : SelectJourney(r) \in 1..8

\* C4: every draw in 0..99 selects one of the eight journeys, the draws
\* selecting each journey number 25 (1, dashboard), 20 (2, data), 5 (3, single
\* error), 10 (4, Python), 10 (5, Go), 10 (6, Rust), 15 (7, random call) and
\* 5 (8, multi-service error), which sum to 100; the journey the loop runs is
\* one of them.
WeightsPartitionDraws ==
    /\ EveryDrawSelects
    /\ JourneyCounts = <<25, 20, 5, 10, 10, 10, 15, 5>>
    /\ Sum8(JourneyCounts) = 100
    /\ DrawRange = 100
    /\ pc \in {"journey", "curl"} => journey_type \in 1..8

\* A multi-service error journey (a draw in 80..84) is running.
WeightsWitness == pc = "curl" /\ journey_type = 8 /\ ip = 3

\* C5: no call is issued more than one scheduling tick after the duration
\* has elapsed (the script starts at clock 0; a state with pc = "curl"
\* directly follows the start of that curl, so its clock is the time of
\* issue).
StopsWithinOneTick ==
    pc = "curl" =>
        now <= DURATION * TicksPerSecond + SLEEP_TIME(REQUESTS_PER_SECOND)

\* C6: once the stop signal has been sent the scheduler is Stopped.
StopSignalStopsAtOnce == sig # "none" => SchedulerState = "Stopped"

\* C7: a scheduler started with a finite duration eventually reaches Stopped,
\* whatever the target services do.
EventuallyStopped == <>(SchedulerState = "Stopped")

\* C8: a run with duration 0 selects no journey, issues no call, counts no
\* request, goes from the first duration check straight to Stopped and
\* reports a total of 0.
ZeroDurationDoesNothing ==
    DURATION = 0 =>
        /\ journey_type = 0
        /\ issued = 0
        /\ request_count = 0
        /\ pc \in {"loop", "done"}
        /\ pc = "loop" => ENABLED LoopTop
        /\ pc = "done" => out.kind \in {"completed", "interrupted"} /\ out.total = 0

\* A run with duration 0 has completed.
ZeroDurationWitness ==
    DURATION = 0 /\ pc = "done" /\ out.kind = "completed" /\ out.total = 0

\* C9: every printed total equals the number of calls issued when it was
\* printed.
ReportedTotalIsCallsIssued == out.kind # "none" => out.total = out.sent

\* C10: a call is marked successful exactly when its HTTP status is 200 or
\* 500, and a call without any response is recorded as status 000.
SuccessIffStatus200Or500 ==
    mark # "none" =>
        /\ (mark = "ok") <=> (curl_result.code \in {"200", "500"})
        /\ curl_result.code = "000" => response_code = "000"

\* The calls among the first k commands of journey j, in the template's order.
IsCallStep(c) == c.op # "sleep"
CallsUpTo(j, k) == SelectSeq(SubSeq(user_journey(j), 1, k), IsCallStep)

\* The calls issued are the template's calls: the same number, each fixed
\* call the same, each random call one of the random targets.
FollowsTemplate(issuedCalls, tmpl) ==
    /\ Len(issuedCalls) = Len(tmpl)
    /\ \A k \in 1..Len(tmpl) :
         IF tmpl[k].op = "call"
         THEN issuedCalls[k] = tmpl[k]
         ELSE issuedCalls[k] \in RandomTargets

\* C14: within one journey the calls are issued in the template's order and
\* one at a time: a call is issued only after the call before it has
\* returned and the think time written between them has elapsed; at most one
\* call is in flight; and a journey is selected only when no call is in
\* flight and the journey before it has run to its end.
StepsInOrderOneAtATime ==
    /\ in_flight \in {0, 1}
    /\ pc \in {"loop", "journey", "sleeping"} => in_flight = 0
    /\ pc = "curl" =>
         /\ in_flight = 1
         /\ FollowsTemplate(sent, CallsUpTo(journey_type, ip))
         /\ sent[Len(sent)] = target
         /\ ip > 1 /\ user_journey(journey_type)[ip - 1].op = "sleep" =>
              now >= returned_at + user_journey(journey_type)[ip - 1].ticks
    /\ pc = "journey" \/ (pc = "sleeping" /\ back = "journey") =>
         FollowsTemplate(sent, CallsUpTo(journey_type, ip - 1))
    /\ pc = "loop" \/ (pc = "sleeping" /\ back = "loop") => sent = << >>

\* The third call of the data journey is in flight after both think times.
StepsInOrderWitness ==
    /\ pc = "curl"
    /\ journey_type = 2
    /\ ip = 5
    /\ Len(sent) = 3
    /\ now >= returned_at + ThinkStep

\* A busy run: one duration and a rate high enough for the total to pass
\* ProgressEvery before the deadline.
InitBusy ==
    /\ DURATION = BusyDuration
    /\ REQUESTS_PER_SECOND = BusyRate
    /\ now = 0
    /\ start_time = DateSeconds(now)
    /\ elapsed = 0
    /\ request_count = 0
    /\ journey_type = 0
    /\ ip = 0
    /\ pc = "loop"
    /\ nap = 0
    /\ back = "loop"
    /\ target = NoTarget
    /\ hung = FALSE
    /\ curl_result = NoResult
    /\ response_code = ""
    /\ mark = "none"
    /\ issued = 0
    /\ out = NoOut
    /\ sig = "none"
    /\ in_flight = 0
    /\ sent = << >>
    /\ returned_at = 0
    /\ reqs = << >>
    /\ spans = {}
    /\ logs = {}
    /\ metrics = {}
    /\ nextId = 1
    /\ lib = "part_002"
    /\ mounted = FALSE
    /\ isInitialized = FALSE
    /\ loading = FALSE
    /\ pythonData = "null"
    /\ goData = "null"
    /\ rustData = "null"
    /\ fetches = << >>

BusySpec == InitBusy /\ [][NextScheduler]_vars

\* C15: each time the total of requests sent grows by another ProgressEvery
\* a progress line is printed: while the script runs, a total of
\* ProgressEvery or more has a progress line as the latest line, and that
\* line is less than ProgressEvery requests old.
ProgressEveryTwenty ==
    pc \in {"loop", "journey", "curl", "sleeping"} /\ request_count >= ProgressEvery =>
        /\ out.kind = "progress"
        /\ request_count - out.total < ProgressEvery

----------------------------------------------------------------------------
(* services/nextjs-frontend: src/app/page.tsx and lib/telemetry *)

\* The two telemetry modules of the repository: the one that only writes to
\* the console, and the one that registers FetchInstrumentation.
TelemetryModules == {"part_001", "part_002"}

\* A URL is the sequence of its pieces, so that a pattern can be searched in
\* it the way an unanchored regular expression is.
PathPieces == {"/", "/data", "/error", "/api", "/?next="}
Endpoint(port) == <<"http://", "localhost", ":", port>>
Ports == {"8001", "8002", "8003"}
PageOrigin == Endpoint("3001")

\* Targets of calls of window.fetch made by other code of the page.
OtherUrls ==
    { PageOrigin \o <<"/api">>,
      <<"http://", "not", "localhost", ":", "8001", "/">>,
      <<"https://", "example.com", "/?next=", "localhost", ":", "8002">>,
      <<"https://", "example.com", "/">> }

\* new URL(url).origin: the pieces before the path.
RECURSIVE OriginOf(_)
OriginOf(url) ==
    IF url = << >> \/ Head(url) \in PathPieces
    THEN << >>
    ELSE <<Head(url)>> \o OriginOf(Tail(url))

\* url.match(/pattern/): the pattern occurs somewhere in the URL.
RegexMatches(url, pattern) ==
    \E k \in 1..(Len(url) - Len(pattern) + 1) :
        SubSeq(url, k, k + Len(pattern) - 1) = pattern

\* How one entry of propagateTraceHeaderCorsUrls is matched.
urlMatches(url, pattern) == RegexMatches(url, pattern)

\* /localhost:8001/, /localhost:8002/, /localhost:8003/
propagateTraceHeaderCorsUrls ==
    { <<"localhost", ":", port>> : port \in Ports }

\* FetchInstrumentation: headers go to the page's own origin and to every
\* URL that one of the patterns matches.
shouldPropagateTraceHeaders(url) ==
    \/ OriginOf(url) = PageOrigin
    \/ \E pattern \in propagateTraceHeaderCorsUrls : urlMatches(url, pattern)

NoTraceparent == [trace |-> 0, span |-> 0]

\* The traceparent header the patched fetch adds to call number n.
Inject(url, n) ==
    IF lib = "part_002" /\ isInitialized /\ shouldPropagateTraceHeaders(url)
    THEN [trace |-> n, span |-> n]
    ELSE NoTraceparent

\* window.fetch(url), called by `by`.
StartFetch(by, url) ==
    /\ Len(fetches) < MaxFetches
    /\ fetches' = Append(fetches,
                         [by |-> by, url |-> url, state |-> "pending",
                          traceparent |-> Inject(url, Len(fetches) + 1)])

Settle(i) == fetches' = [fetches EXCEPT ![i].state = "settled"]

\* endpoint.includes('8001')
Includes(endpoint, piece) == \E k \in 1..Len(endpoint) : endpoint[k] = piece

InitFrontend ==
    /\ lib \in TelemetryModules
    /\ mounted = FALSE
    /\ isInitialized = FALSE
    /\ loading = FALSE
    /\ pythonData = "null"
    /\ goData = "null"
    /\ rustData = "null"
    /\ fetches = << >>
    /\ DURATION = 0
    /\ REQUESTS_PER_SECOND = 1
    /\ now = 0
    /\ start_time = 0
    /\ elapsed = 0
    /\ request_count = 0
    /\ journey_type = 0
    /\ ip = 0
    /\ pc = "loop"
    /\ nap = 0
    /\ back = "loop"
    /\ target = NoTarget
    /\ hung = FALSE
    /\ curl_result = NoResult
    /\ response_code = ""
    /\ mark = "none"
    /\ issued = 0
    /\ out = NoOut
    /\ sig = "none"
    /\ in_flight = 0
    /\ sent = << >>
    /\ returned_at = 0
    /\ reqs = << >>
    /\ spans = {}
    /\ logs = {}
    /\ metrics = {}
    /\ nextId = 1

\* useEffect: setMounted(true); the buttons are rendered from now on.
Mount ==
    /\ ~mounted
    /\ mounted' = TRUE
    /\ UNCHANGED <<lib, isInitialized, loading, pythonData, goData, rustData,
                   fetches>>
    /\ UNCHANGED <<schedVars, goVars>>

\* The dynamic import has resolved and initializeTelemetry registers the
\* instrumentations.  (The module of part_001 only writes to the console.)
initializeTelemetry ==
    /\ mounted
    /\ lib = "part_002"
    /\ ~isInitialized
    /\ isInitialized' = TRUE
    /\ UNCHANGED <<lib, mounted, loading, pythonData, goData, rustData, fetches>>
    /\ UNCHANGED <<schedVars, goVars>>

\* fetchFromService up to the await of fetch(url).
fetchFromService ==
    /\ mounted
    /\ \E service \in {"root", "data"}, port \in Ports :
         StartFetch("fetchFromService",
                    Endpoint(port) \o <<IF service = "data" THEN "/data" ELSE "/">>)
    /\ loading' = TRUE
    /\ UNCHANGED <<lib, mounted, isInitialized, pythonData, goData, rustData>>
    /\ UNCHANGED <<schedVars, goVars>>

\* The rest of fetchFromService: the response arrives and is parsed and the
\* data is stored, or one of the awaits throws; then the finally block.
fetchFromServiceSettle ==
    /\ \E i \in 1..Len(fetches) :
         /\ fetches[i].by = "fetchFromService"
         /\ fetches[i].state = "pending"
         /\ Settle(i)
         /\ LET endpoint == OriginOf(fetches[i].url) IN
            \/ /\ pythonData' = IF Includes(endpoint, "8001") THEN "data" ELSE pythonData
               /\ goData' = IF ~Includes(endpoint, "8001") /\ Includes(endpoint, "8002")
                            THEN "data" ELSE goData
               /\ rustData' = IF /\ ~Includes(endpoint, "8001")
                                 /\ ~Includes(endpoint, "8002")
                                 /\ Includes(endpoint, "8003")
                              THEN "data" ELSE rustData
            \/ UNCHANGED <<pythonData, goData, rustData>>
    /\ loading' = FALSE
    /\ UNCHANGED <<lib, mounted, isInitialized>>
    /\ UNCHANGED <<schedVars, goVars>>

\* triggerError up to the await.
triggerError ==
    /\ mounted
    /\ \E port \in Ports : StartFetch("triggerError", Endpoint(port) \o <<"/error">>)
    /\ UNCHANGED <<lib, mounted, isInitialized, loading, pythonData, goData, rustData>>
    /\ UNCHANGED <<schedVars, goVars>>

\* fetch called by any other code of the page: the patch is on window.fetch.
OtherFetch ==
    /\ mounted
    /\ \E url \in OtherUrls : StartFetch("other", url)
    /\ UNCHANGED <<lib, mounted, isInitialized, loading, pythonData, goData, rustData>>
    /\ UNCHANGED <<schedVars, goVars>>

\* A fetch of triggerError or of other code resolves or rejects.
PlainSettle ==
    /\ \E i \in 1..Len(fetches) :
         /\ fetches[i].by # "fetchFromService"
         /\ fetches[i].state = "pending"
         /\ Settle(i)
    /\ UNCHANGED <<lib, mounted, isInitialized, loading, pythonData, goData, rustData>>
    /\ UNCHANGED <<schedVars, goVars>>

NextFrontend ==
    \/ Mount
    \/ initializeTelemetry
    \/ fetchFromService
    \/ fetchFromServiceSettle
    \/ triggerError
    \/ OtherFetch
    \/ PlainSettle

FrontendSpec == InitFrontend /\ [][NextFrontend]_vars

\* The collaborators: the services at localhost:8001, 8002 and 8003.
AllowListed(url) == OriginOf(url) \in { Endpoint(port) : port \in Ports }

\* C13: a fetch carries a trace id and a span id only when its target is one
\* of the services at localhost:8001, localhost:8002 and localhost:8003.
OnlyAllowListedTargetsGetContext ==
    \A i \in 1..Len(fetches) :
        fetches[i].traceparent # NoTraceparent => AllowListed(fetches[i].url)

\* C16: the loading flag is true exactly while at least one fetch of
\* fetchFromService is in flight.
LoadingIffFetchInFlight ==
    loading <=> \E i \in 1..Len(fetches) :
                    /\ fetches[i].by = "fetchFromService"
                    /\ fetches[i].state = "pending"

====
